---- MODULE Spec2Model ----
(***************************************************************************)
(* PomodoroTimer (src/src/components/pomodoro-timer.tsx, lines 1-325):     *)
(* the React component's state, its countdown effect, its click handlers   *)
(* and the settings dialog.  One action per handler or callback.  A state  *)
(* update is followed by the re-render and the countdown effect of that    *)
(* render (lines 96-120), so every action ends by applying Effect.         *)
(*                                                                         *)
(* handleStartPause and handleSkip read the render's values when clicked   *)
(* and write after `await initializeAudio()`.  When that await waits for   *)
(* Tone.start(), the handler is kept in `pending` with the values it       *)
(* closed over, and is continued (ResumeHandler) or ended (RejectHandler)  *)
(* later; the interval keeps firing meanwhile.                             *)
(*                                                                         *)
(* What is explored: the user issues one command at a time (no click while *)
(* a handler waits), the settings dialog is modal (the timer's buttons are *)
(* used while it is closed), and the bounds below.                         *)
(*                                                                         *)
(* Three specifications: Spec is the component with all its handlers;      *)
(* LiveSpec is the component left alone once the timer runs, with a fair   *)
(* interval; FormatSpec renders formatTime for every countdown value       *)
(* below 100 minutes.                                                      *)
(***************************************************************************)
EXTENDS Integers, Sequences, FiniteSets, TLC

VARIABLES
    focusDuration,        \* committed focus minutes
    breakDuration,        \* committed break minutes
    alarmVolume,          \* committed volume percent
    customFocusDuration,  \* draft strings of the dialog (sequences of characters)
    customBreakDuration,
    customAlarmVolume,
    timeLeft,             \* seconds remaining
    isActive,             \* running flag
    currentPhase,         \* "focus" | "break"
    totalFocusedSeconds,
    isSettingsOpen,
    audioContextStarted,  \* the ref set after Tone.start() resolved
    contextState,         \* Tone.context.state: "suspended" | "running"
    pending,              \* <<c>>: a handler waits in `await initializeAudio()`, having
                          \* closed over c; <<>>: none
    edits,                \* how many times a draft was edited so far
    credits,              \* how many times totalFocusedSeconds was written so far
    focusTicks,           \* one-second ticks applied in Focus so far, counted up to
                          \* MaxFocusTicks
    display,              \* the countdown text of the last render
    toast,                \* the notification emitted by the last step ("none" if none)
    alarm                 \* number of playAlarm() calls made by the last step

vars == <<focusDuration, breakDuration, alarmVolume, customFocusDuration,
          customBreakDuration, customAlarmVolume, timeLeft, isActive, currentPhase,
          totalFocusedSeconds, isSettingsOpen, audioContextStarted, contextState,
          pending, credits, focusTicks, edits, display, toast, alarm>>

settingsVars == <<focusDuration, breakDuration, alarmVolume>>
draftVars == <<customFocusDuration, customBreakDuration, customAlarmVolume, edits>>
timerVars == <<timeLeft, isActive, currentPhase, totalFocusedSeconds, credits,
               focusTicks, display>>
audioVars == <<audioContextStarted, contextState>>

\* ------------------------------------------------------------ constants
DEFAULT_FOCUS_DURATION == 30
DEFAULT_BREAK_DURATION == 15
DEFAULT_ALARM_VOLUME == 50
SecondsPerMinute == 60
MaxVolume == 100

\* ------------------------------------------------------------ bounds
\* Single ticks are explored for the last MaxCountdown seconds of a countdown;
\* the seconds before them pass in one Elapse step.
MaxCountdown == 1
\* Writes of totalFocusedSeconds explored in one behaviour.
MaxCredits == 2
\* Edits of a draft field explored in one behaviour.
MaxEdits == 1
\* The count of focus ticks is exact below this value and stays at it above.
MaxFocusTicks == 61

\* ------------------------------------------------------------ strings
Digits == <<"0", "1", "2", "3", "4", "5", "6", "7", "8", "9">>

IsDigit(c) == \E i \in 1..10 : Digits[i] = c

DigitVal(c) == (CHOOSE i \in 1..10 : Digits[i] = c) - 1

\* Number.prototype.toString of an integer, as a sequence of characters.
RECURSIVE NatToString(_)
NatToString(n) ==
    IF n < 10 THEN <<Digits[n + 1]>>
    ELSE Append(NatToString(n \div 10), Digits[(n % 10) + 1])

toString(n) == IF n < 0 THEN <<"-">> \o NatToString(0 - n) ELSE NatToString(n)

\* The longest prefix of s made of digits.
RECURSIVE DigitPrefix(_)
DigitPrefix(s) ==
    IF s = <<>> \/ ~IsDigit(Head(s)) THEN <<>>
    ELSE <<Head(s)>> \o DigitPrefix(Tail(s))

RECURSIVE DigitsValue(_, _)
DigitsValue(s, acc) ==
    IF s = <<>> THEN acc ELSE DigitsValue(Tail(s), acc * 10 + DigitVal(Head(s)))

RECURSIVE TrimLeft(_)
TrimLeft(s) == IF s # <<>> /\ Head(s) = " " THEN TrimLeft(Tail(s)) ELSE s

NaN == [nan |-> TRUE, val |-> 0]

\* parseInt(s, 10): leading blanks skipped, an optional sign, then the longest
\* run of digits; NaN when there is no digit there.  What follows is ignored.
ParseInt(s) ==
    LET t == TrimLeft(s)
        signed == t # <<>> /\ Head(t) \in {"-", "+"}
        body == IF signed THEN Tail(t) ELSE t
        ds == DigitPrefix(body)
        mag == DigitsValue(ds, 0)
    IN  IF ds = <<>> THEN NaN
        ELSE [nan |-> FALSE, val |-> IF signed /\ Head(t) = "-" THEN 0 - mag ELSE mag]

isNaN(p) == p.nan

\* formatTime without the zero padding of the seconds.
formatTimeUnpadded(seconds) ==
    LET mins == seconds \div SecondsPerMinute
        secs == seconds % SecondsPerMinute
    IN  (IF mins < 10 THEN <<"0">> ELSE <<>>) \o toString(mins) \o <<":">>
            \o toString(secs)

\* formatTime(seconds), for seconds >= 0.
formatTime(seconds) ==
    LET mins == seconds \div SecondsPerMinute
        secs == seconds % SecondsPerMinute
    IN  (IF mins < 10 THEN <<"0">> ELSE <<>>) \o toString(mins) \o <<":">>
            \o (IF secs < 10 THEN <<"0">> ELSE <<>>) \o toString(secs)

\* ------------------------------------------------------------ inputs
\* What the user enters in the focus and in the break field (<input type="number">).
FocusInputs == { <<"1">>, <<"0">> }
BreakInputs == { <<"1", ".", "5">>, <<>> }
\* The positions the volume slider is moved to (it allows 0..MaxVolume).
SliderValues == { 0 }

\* ------------------------------------------------------------ state
Phases == {"focus", "break"}

\* The timer state one render shows, with what a step emitted so far.
Current ==
    [timeLeft |-> timeLeft, isActive |-> isActive, currentPhase |-> currentPhase,
     totalFocusedSeconds |-> totalFocusedSeconds, credits |-> credits,
     focusTicks |-> focusTicks,
     toast |-> "none", alarm |-> 0]

\* The values a handler closes over when it is called.
Closure(kind) ==
    [kind |-> kind, isActive |-> isActive, timeLeft |-> timeLeft,
     currentPhase |-> currentPhase, focusDuration |-> focusDuration,
     breakDuration |-> breakDuration]

Init ==
    /\ focusDuration = DEFAULT_FOCUS_DURATION
    /\ breakDuration = DEFAULT_BREAK_DURATION
    /\ alarmVolume = DEFAULT_ALARM_VOLUME
    /\ customFocusDuration = toString(DEFAULT_FOCUS_DURATION)
    /\ customBreakDuration = toString(DEFAULT_BREAK_DURATION)
    /\ customAlarmVolume = toString(DEFAULT_ALARM_VOLUME)
    /\ timeLeft = DEFAULT_FOCUS_DURATION * SecondsPerMinute
    /\ isActive = FALSE
    /\ currentPhase = "focus"
    /\ totalFocusedSeconds = 0
    /\ isSettingsOpen = FALSE
    /\ audioContextStarted = FALSE
    /\ contextState \in {"suspended", "running"}
    /\ pending = <<>>
    /\ credits = 0
    /\ focusTicks = 0
    /\ display = formatTime(DEFAULT_FOCUS_DURATION * SecondsPerMinute)
    /\ edits = 0
    /\ toast = "none"
    /\ alarm = 0

\* ------------------------------------------------------------ countdown effect
\* Expire with the focus credit left out.
ExpireNoCredit(t, f, b) ==
    IF t.currentPhase = "focus"
    THEN [t EXCEPT !.credits = @ + 1,
                   !.currentPhase = "break",
                   !.timeLeft = b * SecondsPerMinute,
                   !.toast = "focus-ended",
                   !.alarm = @ + 1]
    ELSE [t EXCEPT !.currentPhase = "focus",
                   !.timeLeft = f * SecondsPerMinute,
                   !.toast = "break-ended",
                   !.alarm = @ + 1]

\* Expire stopping the timer at the end of a phase.
ExpireStops(t, f, b) ==
    IF t.currentPhase = "focus"
    THEN [t EXCEPT !.totalFocusedSeconds = @ + f * SecondsPerMinute,
                   !.credits = @ + 1,
                   !.currentPhase = "break",
                   !.timeLeft = b * SecondsPerMinute,
                   !.isActive = FALSE,
                   !.toast = "focus-ended",
                   !.alarm = @ + 1]
    ELSE [t EXCEPT !.currentPhase = "focus",
                   !.timeLeft = f * SecondsPerMinute,
                   !.isActive = FALSE,
                   !.toast = "break-ended",
                   !.alarm = @ + 1]

\* The else-if branch of the effect: the render shows a running timer at 0.
Expire(t, f, b) ==
    IF t.currentPhase = "focus"
    THEN [t EXCEPT !.totalFocusedSeconds = @ + f * SecondsPerMinute,
                   !.credits = @ + 1,
                   !.currentPhase = "break",
                   !.timeLeft = b * SecondsPerMinute,
                   !.toast = "focus-ended",
                   !.alarm = @ + 1]
    ELSE [t EXCEPT !.currentPhase = "focus",
                   !.timeLeft = f * SecondsPerMinute,
                   !.toast = "break-ended",
                   !.alarm = @ + 1]

\* Effect expiring the phase one tick late.
EffectBelowZero(t, f, b) ==
    IF t.isActive /\ t.timeLeft < 0 THEN Expire(t, f, b) ELSE t

\* The effect of the render that shows t (the interval of the first branch is
\* the Tick action).
Effect(t, f, b) ==
    IF t.isActive /\ t.timeLeft = 0 THEN Expire(t, f, b) ELSE t

\* initializeAudio() waits for Tone.start() in this case only.
NeedsAwait == ~audioContextStarted /\ contextState # "running"

\* No handler waits: the user may issue the next command.
UserIdle == pending = <<>>

\* The state after a step's updates: the render with committed durations f and
\* b, and its effect.
Render(t, f, b, started) ==
    LET e == Effect(t, f, b) IN
    /\ e.credits <= MaxCredits
    /\ timeLeft' = e.timeLeft
    /\ isActive' = e.isActive
    /\ currentPhase' = e.currentPhase
    /\ totalFocusedSeconds' = e.totalFocusedSeconds
    /\ credits' = e.credits
    /\ focusTicks' = e.focusTicks
    /\ display' = formatTime(e.timeLeft)
    /\ toast' = e.toast
    /\ alarm' = e.alarm
    /\ audioContextStarted' = started
    /\ UNCHANGED contextState

\* ------------------------------------------------------------ ticks
\* Tick with the interval installed whenever the timer runs: the countdown is
\* decremented at 0 as well and the expiry branch is never reached.
TickBelowZero ==
    /\ isActive
    /\ timeLeft <= MaxCountdown
    /\ timeLeft > 0 - MaxCountdown
    /\ timeLeft' = timeLeft - 1
    /\ toast' = "none"
    /\ alarm' = 0
    /\ UNCHANGED <<settingsVars, draftVars, isActive, currentPhase,
                   totalFocusedSeconds, credits, focusTicks, display, isSettingsOpen,
                   audioVars, pending>>

\* Tick with an interval that outlives a pause: the isActive test is gone.
TickWhilePaused ==
    /\ timeLeft > 0
    /\ timeLeft <= MaxCountdown
    /\ Render([Current EXCEPT !.timeLeft = @ - 1], focusDuration, breakDuration,
              audioContextStarted)
    /\ UNCHANGED <<settingsVars, draftVars, isSettingsOpen, pending>>

\* The count of focus ticks after n more ticks in the given phase.
CountTicks(phase, n) ==
    IF phase # "focus" THEN focusTicks
    ELSE IF focusTicks + n > MaxFocusTicks THEN MaxFocusTicks
    ELSE focusTicks + n

\* The interval callback: setTimeLeft(prev => prev - 1).
Tick ==
    /\ isActive /\ timeLeft > 0
    /\ timeLeft <= MaxCountdown
    /\ Render([Current EXCEPT !.timeLeft = @ - 1,
                              !.focusTicks = CountTicks(currentPhase, 1)],
              focusDuration, breakDuration, audioContextStarted)
    /\ UNCHANGED <<settingsVars, draftVars, isSettingsOpen, pending>>

\* The interval callback firing timeLeft - MaxCountdown times in a row.
Elapse ==
    /\ isActive /\ timeLeft > MaxCountdown
    /\ Render([Current EXCEPT !.timeLeft = MaxCountdown,
                              !.focusTicks = CountTicks(currentPhase, timeLeft - MaxCountdown)],
              focusDuration, breakDuration, audioContextStarted)
    /\ UNCHANGED <<settingsVars, draftVars, isSettingsOpen, pending>>

\* ------------------------------------------------------------ handlers
\* StartPauseBody reseeding the countdown at every start.
StartPauseAlwaysReseeds(c, t) ==
    [t EXCEPT !.isActive = ~@,
              !.timeLeft = IF ~c.isActive
                           THEN (IF c.currentPhase = "focus"
                                 THEN c.focusDuration * SecondsPerMinute
                                 ELSE c.breakDuration * SecondsPerMinute)
                           ELSE @]

\* handleStartPause after its await: c is what the handler closed over, t the
\* state its updates are applied to.
StartPauseBody(c, t) ==
    [t EXCEPT !.isActive = ~@,
              !.timeLeft = IF ~c.isActive /\ c.timeLeft = 0
                           THEN (IF c.currentPhase = "focus"
                                 THEN c.focusDuration * SecondsPerMinute
                                 ELSE c.breakDuration * SecondsPerMinute)
                           ELSE @]

\* SkipBody without the playAlarm() call.
SkipBodyNoAlarm(c, t) ==
    IF c.currentPhase = "focus"
    THEN [t EXCEPT !.totalFocusedSeconds =
                        @ + (c.focusDuration * SecondsPerMinute - c.timeLeft),
                   !.credits = @ + 1,
                   !.currentPhase = "break",
                   !.timeLeft = c.breakDuration * SecondsPerMinute,
                   !.toast = "skipped-to-break",
                   !.isActive = TRUE]
    ELSE [t EXCEPT !.currentPhase = "focus",
                   !.timeLeft = c.focusDuration * SecondsPerMinute,
                   !.toast = "skipped-to-focus",
                   !.isActive = TRUE]

\* handleSkip after its await.
SkipBody(c, t) ==
    IF c.currentPhase = "focus"
    THEN [t EXCEPT !.totalFocusedSeconds =
                        @ + (c.focusDuration * SecondsPerMinute - c.timeLeft),
                   !.credits = @ + 1,
                   !.currentPhase = "break",
                   !.timeLeft = c.breakDuration * SecondsPerMinute,
                   !.toast = "skipped-to-break",
                   !.alarm = @ + 1,
                   !.isActive = TRUE]
    ELSE [t EXCEPT !.currentPhase = "focus",
                   !.timeLeft = c.focusDuration * SecondsPerMinute,
                   !.toast = "skipped-to-focus",
                   !.alarm = @ + 1,
                   !.isActive = TRUE]

HandlerBody(c, t) ==
    IF c.kind = "toggle" THEN StartPauseBody(c, t) ELSE SkipBody(c, t)

\* A click on a button whose handler starts with `await initializeAudio()`:
\* the handler runs through when nothing is awaited, and waits otherwise.
Click(kind) ==
    /\ UserIdle
    /\ ~isSettingsOpen
    /\ IF NeedsAwait
       THEN /\ pending' = <<Closure(kind)>>
            /\ toast' = "none"
            /\ alarm' = 0
            /\ UNCHANGED <<settingsVars, draftVars, timerVars, isSettingsOpen,
                           audioVars>>
       ELSE /\ Render(HandlerBody(Closure(kind), Current), focusDuration,
                      breakDuration, audioContextStarted)
            /\ UNCHANGED <<settingsVars, draftVars, isSettingsOpen, pending>>

handleStartPause == Click("toggle")

handleSkip == Click("skip")

\* Tone.start() resolved: the waiting handler sets audioContextStarted and goes
\* on with the values it closed over.
ResumeHandler ==
    /\ pending # <<>>
    /\ contextState = "running"
    /\ Render(HandlerBody(Head(pending), Current), focusDuration, breakDuration, TRUE)
    /\ pending' = Tail(pending)
    /\ UNCHANGED <<settingsVars, draftVars, isSettingsOpen>>

\* Tone.start() rejected: the handler ends at its await.
RejectHandler ==
    /\ pending # <<>>
    /\ pending' = Tail(pending)
    /\ toast' = "none"
    /\ alarm' = 0
    /\ UNCHANGED <<settingsVars, draftVars, timerVars, isSettingsOpen, audioVars>>

\* handleReset without setCurrentPhase("focus").
handleResetKeepsPhase ==
    /\ UserIdle
    /\ ~isSettingsOpen
    /\ Render([Current EXCEPT !.isActive = FALSE,
                              !.timeLeft = focusDuration * SecondsPerMinute,
                              !.toast = "timer-reset"],
              focusDuration, breakDuration, audioContextStarted)
    /\ UNCHANGED <<settingsVars, draftVars, isSettingsOpen, pending>>

\* handleReset with setIsActive(prev => !prev) for setIsActive(false).
handleResetToggles ==
    /\ UserIdle
    /\ ~isSettingsOpen
    /\ Render([Current EXCEPT !.isActive = ~@,
                              !.currentPhase = "focus",
                              !.timeLeft = focusDuration * SecondsPerMinute,
                              !.toast = "timer-reset"],
              focusDuration, breakDuration, audioContextStarted)
    /\ UNCHANGED <<settingsVars, draftVars, isSettingsOpen, pending>>

handleReset ==
    /\ UserIdle
    /\ ~isSettingsOpen
    /\ Render([Current EXCEPT !.isActive = FALSE,
                              !.currentPhase = "focus",
                              !.timeLeft = focusDuration * SecondsPerMinute,
                              !.toast = "timer-reset"],
              focusDuration, breakDuration, audioContextStarted)
    /\ UNCHANGED <<settingsVars, draftVars, isSettingsOpen, pending>>

\* ------------------------------------------------------------ settings dialog
\* The settings button: the drafts are reloaded from the committed settings and
\* the dialog opens.
OpenSettings ==
    /\ UserIdle
    /\ ~isSettingsOpen
    /\ customFocusDuration' = toString(focusDuration)
    /\ customBreakDuration' = toString(breakDuration)
    /\ customAlarmVolume' = toString(alarmVolume)
    /\ UNCHANGED edits
    /\ isSettingsOpen' = TRUE
    /\ toast' = "none"
    /\ alarm' = 0
    /\ UNCHANGED <<settingsVars, timerVars, audioVars, pending>>

\* Cancel (or any other way the dialog closes itself).
CancelSettings ==
    /\ UserIdle
    /\ isSettingsOpen
    /\ isSettingsOpen' = FALSE
    /\ toast' = "none"
    /\ alarm' = 0
    /\ UNCHANGED <<settingsVars, draftVars, timerVars, audioVars, pending>>

EditFocus ==
    /\ UserIdle
    /\ isSettingsOpen
    /\ \E v \in FocusInputs : customFocusDuration' = v
    /\ toast' = "none"
    /\ alarm' = 0
    /\ edits < MaxEdits /\ edits' = edits + 1
    /\ UNCHANGED <<settingsVars, customBreakDuration, customAlarmVolume, timerVars,
                   isSettingsOpen, audioVars, pending>>

EditBreak ==
    /\ UserIdle
    /\ isSettingsOpen
    /\ \E v \in BreakInputs : customBreakDuration' = v
    /\ toast' = "none"
    /\ alarm' = 0
    /\ edits < MaxEdits /\ edits' = edits + 1
    /\ UNCHANGED <<settingsVars, customFocusDuration, customAlarmVolume, timerVars,
                   isSettingsOpen, audioVars, pending>>

\* EditVolume writing the committed volume as well as the draft.
EditVolumeCommits ==
    /\ UserIdle
    /\ isSettingsOpen
    /\ \E v \in SliderValues :
          /\ customAlarmVolume' = toString(v)
          /\ alarmVolume' = v
    /\ toast' = "none"
    /\ alarm' = 0
    /\ edits < MaxEdits /\ edits' = edits + 1
    /\ UNCHANGED <<focusDuration, breakDuration, customFocusDuration,
                   customBreakDuration, timerVars, isSettingsOpen, audioVars, pending>>

EditVolume ==
    /\ UserIdle
    /\ isSettingsOpen
    /\ \E v \in SliderValues : customAlarmVolume' = toString(v)
    /\ toast' = "none"
    /\ alarm' = 0
    /\ edits < MaxEdits /\ edits' = edits + 1
    /\ UNCHANGED <<settingsVars, customFocusDuration, customBreakDuration, timerVars,
                   isSettingsOpen, audioVars, pending>>

\* DurationsInvalid with `< 0` for `<= 0`.
DurationsInvalidAcceptsZero(newFocus, newBreak) ==
    isNaN(newFocus) \/ newFocus.val < 0 \/ isNaN(newBreak) \/ newBreak.val < 0

\* DurationsInvalid without the isNaN tests.
DurationsInvalidAcceptsNaN(newFocus, newBreak) ==
    (~isNaN(newFocus) /\ newFocus.val <= 0) \/ (~isNaN(newBreak) /\ newBreak.val <= 0)

\* The two validations of handleSaveSettings, on the parsed drafts.
DurationsInvalid(newFocus, newBreak) ==
    isNaN(newFocus) \/ newFocus.val <= 0 \/ isNaN(newBreak) \/ newBreak.val <= 0

VolumeInvalid(newVolume) ==
    isNaN(newVolume) \/ newVolume.val < 0 \/ newVolume.val > MaxVolume

\* What handleSaveSettings decides from the three draft strings: a rejection
\* with its notification, or the settings to commit.
SaveOutcome(fd, bd, vd) ==
    LET newFocus == ParseInt(fd)
        newBreak == ParseInt(bd)
        newVolume == ParseInt(vd)
    IN  IF DurationsInvalid(newFocus, newBreak)
        THEN [ok |-> FALSE, toast |-> "invalid-duration",
              focus |-> 0, break |-> 0, volume |-> 0]
        ELSE IF VolumeInvalid(newVolume)
        THEN [ok |-> FALSE, toast |-> "invalid-volume",
              focus |-> 0, break |-> 0, volume |-> 0]
        ELSE [ok |-> TRUE, toast |-> "settings-saved",
              focus |-> newFocus.val, break |-> newBreak.val, volume |-> newVolume.val]

\* SaveReseed from the focus duration whatever the phase.
SaveReseedFocusOnly(phase, newFocus, newBreak) ==
    newFocus * SecondsPerMinute

\* The seconds handleSaveSettings reseeds the countdown with when the timer is
\* not running.
SaveReseed(phase, newFocus, newBreak) ==
    IF phase = "focus" THEN newFocus * SecondsPerMinute
    ELSE newBreak * SecondsPerMinute

\* handleSaveSettings without the `if (!isActive)` around the reseed.
handleSaveSettingsAlwaysReseeds ==
    LET r == SaveOutcome(customFocusDuration, customBreakDuration, customAlarmVolume)
    IN
    /\ UserIdle
    /\ isSettingsOpen
    /\ IF ~r.ok
       THEN /\ toast' = r.toast
            /\ alarm' = 0
            /\ UNCHANGED <<settingsVars, draftVars, timerVars, isSettingsOpen,
                           audioVars, pending>>
       ELSE /\ focusDuration' = r.focus
            /\ breakDuration' = r.break
            /\ alarmVolume' = r.volume
            /\ Render([Current EXCEPT
                          !.timeLeft = SaveReseed(currentPhase, r.focus, r.break),
                          !.toast = r.toast],
                      r.focus, r.break, audioContextStarted)
            /\ isSettingsOpen' = FALSE
            /\ UNCHANGED <<draftVars, pending>>

handleSaveSettings ==
    LET r == SaveOutcome(customFocusDuration, customBreakDuration, customAlarmVolume)
    IN
    /\ UserIdle
    /\ isSettingsOpen
    /\ IF ~r.ok
       THEN /\ toast' = r.toast
            /\ alarm' = 0
            /\ UNCHANGED <<settingsVars, draftVars, timerVars, isSettingsOpen,
                           audioVars, pending>>
       ELSE /\ focusDuration' = r.focus
            /\ breakDuration' = r.break
            /\ alarmVolume' = r.volume
            /\ Render([Current EXCEPT
                          !.timeLeft = IF ~isActive
                                       THEN SaveReseed(currentPhase, r.focus, r.break)
                                       ELSE @,
                          !.toast = r.toast],
                      r.focus, r.break, audioContextStarted)
            /\ isSettingsOpen' = FALSE
            /\ UNCHANGED <<draftVars, pending>>

\* The bell button of the dialog: playAlarm(vol) for a valid volume draft.
TestAlarm ==
    LET vol == ParseInt(customAlarmVolume) IN
    /\ UserIdle
    /\ isSettingsOpen
    /\ IF ~isNaN(vol) /\ vol.val >= 0 /\ vol.val <= MaxVolume
       THEN /\ alarm' = 1
            /\ toast' = "none"
       ELSE /\ alarm' = 0
            /\ toast' = "invalid-test-volume"
    /\ UNCHANGED <<settingsVars, draftVars, timerVars, isSettingsOpen, audioVars,
                   pending>>

\* ------------------------------------------------------------ audio context
\* The browser lets the audio context run (a user gesture, or its own policy).
\* The context's state is read by initializeAudio only until audioContextStarted
\* is set, so its changes are followed until then.
ContextResumes ==
    /\ ~audioContextStarted
    /\ contextState = "suspended"
    /\ contextState' = "running"
    /\ toast' = "none"
    /\ alarm' = 0
    /\ UNCHANGED <<settingsVars, draftVars, timerVars, isSettingsOpen,
                   audioContextStarted, pending>>

\* The browser suspends the audio context.
ContextSuspends ==
    /\ ~audioContextStarted
    /\ contextState = "running"
    /\ contextState' = "suspended"
    /\ toast' = "none"
    /\ alarm' = 0
    /\ UNCHANGED <<settingsVars, draftVars, timerVars, isSettingsOpen,
                   audioContextStarted, pending>>

\* A Tone.start() called by the mount effect or by playAlarm resolved once the
\* context runs: initializeAudio sets audioContextStarted.
ToneStartResolved ==
    /\ ~audioContextStarted
    /\ contextState = "running"
    /\ audioContextStarted' = TRUE
    /\ toast' = "none"
    /\ alarm' = 0
    /\ UNCHANGED <<settingsVars, draftVars, timerVars, isSettingsOpen,
                   contextState, pending>>

\* ------------------------------------------------------------ specification
Next ==
    \/ Tick
    \/ Elapse
    \/ handleStartPause
    \/ handleSkip
    \/ ResumeHandler
    \/ RejectHandler
    \/ handleReset
    \/ OpenSettings
    \/ CancelSettings
    \/ EditFocus
    \/ EditBreak
    \/ EditVolume
    \/ handleSaveSettings
    \/ TestAlarm
    \/ ContextResumes
    \/ ContextSuspends
    \/ ToneStartResolved

Spec == Init /\ [][Next]_vars

\* ============================================================ properties
\* The steps in which a handler's updates are applied: at the click when
\* nothing is awaited, at the resumption otherwise.
SkipStep ==
    \/ ~NeedsAwait /\ handleSkip
    \/ pending # <<>> /\ Head(pending).kind = "skip" /\ ResumeHandler

ToggleStep ==
    \/ ~NeedsAwait /\ handleStartPause
    \/ pending # <<>> /\ Head(pending).kind = "toggle" /\ ResumeHandler

\* The seconds of a full phase under the committed settings.
PhaseSeconds(phase) ==
    IF phase = "focus" THEN focusDuration * SecondsPerMinute
    ELSE breakDuration * SecondsPerMinute

\* C1: totalFocusedSeconds never decreases from one state to the next.
\* Violated: after a save that shortens the focus duration while the timer
\* runs, handleSkip adds focusDuration * 60 - timeLeft, which is negative.
C1_TotalNeverDecreases ==
    [][totalFocusedSeconds' >= totalFocusedSeconds]_vars

\* C2: when the timer runs in Focus and a tick brings the countdown to 0, the
\* phase becomes Break, the countdown is the full break duration, the total
\* grows by the full focus duration, and the timer keeps running.
C2_FocusExpiry ==
    [][(Tick /\ isActive /\ currentPhase = "focus" /\ timeLeft = 1) =>
          /\ currentPhase' = "break"
          /\ timeLeft' = breakDuration * SecondsPerMinute
          /\ totalFocusedSeconds' = totalFocusedSeconds + focusDuration * SecondsPerMinute
          /\ isActive' = TRUE]_vars

\* A Focus phase has just expired and the Break runs from its full length.
C2_Witness ==
    /\ toast = "focus-ended"
    /\ currentPhase = "break"
    /\ isActive
    /\ timeLeft = breakDuration * SecondsPerMinute
    /\ totalFocusedSeconds = focusDuration * SecondsPerMinute

\* C3: a skip applied in Focus with f the focus duration and r the countdown
\* adds f * 60 - r to the total, enters Break with the full break duration, and
\* leaves the timer running. Violated by a skip that waited for the audio
\* context: it credits f * 60 minus the countdown read at the click.
C3_SkipFromFocus ==
    [][(SkipStep /\ currentPhase = "focus") =>
          /\ totalFocusedSeconds' =
                 totalFocusedSeconds + (focusDuration * SecondsPerMinute - timeLeft)
          /\ currentPhase' = "break"
          /\ timeLeft' = breakDuration * SecondsPerMinute
          /\ isActive' = TRUE]_vars

\* C4: after a reset the timer is paused, in Focus, with the countdown at the
\* full focus duration; the total and the settings are as before.
C4_ResetPostcondition ==
    [][handleReset =>
          /\ isActive' = FALSE
          /\ currentPhase' = "focus"
          /\ timeLeft' = focusDuration * SecondsPerMinute
          /\ totalFocusedSeconds' = totalFocusedSeconds
          /\ UNCHANGED settingsVars]_vars

\* A reset has been applied after focus time was credited.
C4_Witness ==
    /\ toast = "timer-reset"
    /\ ~isActive
    /\ currentPhase = "focus"
    /\ timeLeft = focusDuration * SecondsPerMinute
    /\ totalFocusedSeconds > 0

\* C5: a reset applied right after a reset changes nothing.
C5_ResetIdempotent ==
    [][(toast = "timer-reset" /\ handleReset) => UNCHANGED vars]_vars

\* The state after a reset, where the next reset can be issued.
C5_Witness ==
    /\ toast = "timer-reset"
    /\ UserIdle
    /\ ~isSettingsOpen
    /\ ENABLED handleReset

\* C6: a toggle applied with the countdown above 0 flips isActive and leaves
\* the countdown, the phase and the total alone; a toggle applied to a paused
\* timer at 0 starts it with the countdown at the full duration of the current
\* phase, the phase and the total unchanged. No reachable state is paused at 0,
\* so the second half is stated on the handler's body for the current phase and
\* settings with the countdown put at 0.
C6_ToggleAtZero ==
    LET c == [Closure("toggle") EXCEPT !.isActive = FALSE, !.timeLeft = 0]
        t == [Current EXCEPT !.isActive = FALSE, !.timeLeft = 0]
        r == Effect(StartPauseBody(c, t), focusDuration, breakDuration)
    IN  /\ r.isActive = TRUE
        /\ r.timeLeft = PhaseSeconds(currentPhase)
        /\ r.currentPhase = currentPhase
        /\ r.totalFocusedSeconds = totalFocusedSeconds

C6_Toggle ==
    /\ []C6_ToggleAtZero
    /\ [][(ToggleStep /\ timeLeft > 0) =>
             /\ isActive' = ~isActive
             /\ timeLeft' = timeLeft
             /\ currentPhase' = currentPhase
             /\ totalFocusedSeconds' = totalFocusedSeconds]_vars

\* The timer was started by a toggle that waited for the audio context: it
\* runs in its first Focus phase with the countdown it was started at.
C6_Witness ==
    /\ isActive
    /\ currentPhase = "focus"
    /\ credits = 0
    /\ timeLeft = PhaseSeconds("focus")
    /\ audioContextStarted

\* The drafts that C7 and C8 speak of, read off the draft strings.
DraftsRejected ==
    LET nf == ParseInt(customFocusDuration)
        nb == ParseInt(customBreakDuration)
        nv == ParseInt(customAlarmVolume)
    IN  \/ nf.nan \/ nf.val <= 0
        \/ nb.nan \/ nb.val <= 0
        \/ nv.nan \/ nv.val < 0 \/ nv.val > 100

\* Volume drafts that do not parse to an integer in 0..100.
BadVolumeDrafts ==
    { <<"1", "0", "1">>, <<"-", "1">>, <<>>, <<"v">> }

\* C7: a save with a focus or break draft that is no integer above 0, or a
\* volume draft that is no integer in 0..100, commits nothing, leaves the
\* timer alone, keeps the dialog open and raises a validation notification.
\* The slider is the only way to edit the volume draft, so the volume case is
\* stated on SaveOutcome with the committed durations as drafts.
C7_VolumeRejected ==
    \A vd \in BadVolumeDrafts :
        LET r == SaveOutcome(toString(focusDuration), toString(breakDuration), vd)
        IN  ~r.ok /\ r.toast = "invalid-volume"

C7_SaveRejected ==
    /\ []C7_VolumeRejected
    /\ [][(handleSaveSettings /\ DraftsRejected) =>
             /\ UNCHANGED settingsVars
             /\ UNCHANGED <<currentPhase, timeLeft, isActive, totalFocusedSeconds>>
             /\ isSettingsOpen' = TRUE
             /\ toast' \in {"invalid-duration", "invalid-volume"}]_vars

\* A save has just been rejected: the dialog is open on an invalid draft.
C7_Witness ==
    /\ toast = "invalid-duration"
    /\ isSettingsOpen
    /\ DraftsRejected

C9_SettingsInvariant ==
    /\ focusDuration \in Nat \ {0}
    /\ breakDuration \in Nat \ {0}
    /\ alarmVolume \in 0..100

\* A save has committed the lowest volume the slider offers.
C9_Witness ==
    /\ alarmVolume = 0
    /\ ~isSettingsOpen

\* C10: the countdown is never negative.
C10_TimeLeftNonNegative ==
    timeLeft >= 0

\* The countdown runs at its last second while a handler waits for the audio
\* context.
C10_Witness ==
    /\ isActive
    /\ timeLeft = 1
    /\ pending # <<>>

\* C11: the countdown is at most the committed duration of the current phase,
\* in seconds. Violated: a save while the timer runs commits a shorter
\* duration and leaves the countdown where it was.
C11_TimeLeftBounded ==
    timeLeft <= PhaseSeconds(currentPhase)

C13_TotalAtMostFocusTicks ==
    focusTicks < MaxFocusTicks => totalFocusedSeconds <= focusTicks

\* C14: while the timer is paused, the countdown, the phase and the total
\* change only by a command (skip, reset, save), never by the passage of time,
\* and a toggle resumes from the countdown the pause left.
C14_StopTheWorld ==
    [][~isActive =>
          /\ (<<timeLeft, currentPhase, totalFocusedSeconds>>' #
                  <<timeLeft, currentPhase, totalFocusedSeconds>>)
                => (SkipStep \/ handleReset \/ handleSaveSettings)
          /\ ToggleStep => (isActive' /\ timeLeft' = timeLeft)]_vars

\* The timer was paused by a toggle in the middle of a Focus phase.
C14_Witness ==
    /\ ~isActive
    /\ currentPhase = "focus"
    /\ timeLeft > 0
    /\ timeLeft < PhaseSeconds("focus")
    /\ focusTicks > 0
    /\ toast = "none"

\* C15: what a handler read at the click is what holds in the state its
\* updates are applied to: for a skip the phase and the countdown, for a toggle
\* the running flag, the phase and whether the countdown is 0. Violated: ticks
\* and an expiry pass while a skip handler waits for the audio context.
C15_HandlersReadCurrentState ==
    [][(pending # <<>> /\ ResumeHandler) =>
          IF Head(pending).kind = "skip"
          THEN /\ Head(pending).currentPhase = currentPhase
               /\ Head(pending).timeLeft = timeLeft
          ELSE /\ Head(pending).isActive = isActive
               /\ Head(pending).currentPhase = currentPhase
               /\ (Head(pending).timeLeft = 0) = (timeLeft = 0)]_vars

\* C16: a toggle or skip takes effect on the timer whatever becomes of the
\* audio initialisation it waits for: when the wait ends, a toggle has flipped
\* isActive and a skip has changed the phase and left the timer running.
\* Violated: when Tone.start() rejects, the handler ends at its await.
C16_CommandsSurviveAudioFailure ==
    [][(pending # <<>> /\ pending' = <<>>) =>
          IF Head(pending).kind = "toggle"
          THEN isActive' = ~isActive
          ELSE isActive' /\ currentPhase' # currentPhase]_vars


\* C18: the committed settings change only in a save with valid drafts.
C18_SettingsChangeOnlyBySave ==
    [][settingsVars' # settingsVars => (~DraftsRejected /\ handleSaveSettings)]_vars

\* A save has committed a break duration other than the default.
C18_Witness ==
    /\ breakDuration # DEFAULT_BREAK_DURATION
    /\ toast = "settings-saved"

\* The tick that brings the countdown of the running timer to 0.
ExpiryStep == isActive /\ timeLeft = 1 /\ Tick

\* C19: playAlarm is called once in the step of a natural expiry and once in
\* the step that applies a skip; a phase change other than a reset's happens
\* in a step with that call; a toggle, a reset, a save and a tick that leaves
\* the countdown above 0 call nothing.
C19_AlarmOncePerTransition ==
    [][/\ ExpiryStep => (alarm' = 1 /\ currentPhase' # currentPhase)
       /\ SkipStep => alarm' = 1
       /\ (currentPhase' # currentPhase /\ ~handleReset) => alarm' = 1
       /\ (\/ ToggleStep
           \/ handleReset
           \/ handleSaveSettings
           \/ timeLeft # 1 /\ Tick
           \/ Elapse) => alarm' = 0]_vars

\* A Break has just expired with one call of playAlarm.
C19_Witness ==
    /\ toast = "break-ended"
    /\ alarm = 1
    /\ currentPhase = "focus"
    /\ isActive



currentPhaseTotalDuration ==
    (IF currentPhase = "focus" THEN focusDuration ELSE breakDuration)
        * SecondsPerMinute

progressPercentage ==
    IF currentPhaseTotalDuration > 0
    THEN [num |-> (currentPhaseTotalDuration - timeLeft) * 100,
          den |-> currentPhaseTotalDuration]
    ELSE [num |-> 0, den |-> 1]

\* C22: the progress shown lies between 0 and 100 percent in every reachable
\* state.  Violated: a save while the timer runs commits a shorter duration
\* and leaves the countdown above it.
C22_ProgressInUnitInterval ==
    /\ 0 <= progressPercentage.num
    /\ progressPercentage.num <= 100 * progressPercentage.den


LiveNext ==
    \/ Tick
    \/ Elapse
    \/ ~isActive /\ handleStartPause
    \/ ~isActive /\ handleSkip
    \/ ~isActive /\ handleReset
    \/ ~isActive /\ OpenSettings
    \/ ~isActive /\ CancelSettings
    \/ ~isActive /\ EditFocus
    \/ ~isActive /\ EditBreak
    \/ ~isActive /\ EditVolume
    \/ ~isActive /\ handleSaveSettings
    \/ ~isActive /\ TestAlarm
    \/ ResumeHandler
    \/ RejectHandler
    \/ ContextResumes
    \/ ContextSuspends
    \/ ToneStartResolved

LiveSpec == Init /\ [][LiveNext]_vars /\ WF_vars(Tick) /\ WF_vars(Elapse)

\* C20: once the timer runs and is left alone, it keeps running, a running
\* Focus is followed by a running Break and a running Break by a running Focus
\* (for as many Focus phases as the model credits), and each Focus that ends
\* adds the full focus duration to the total.
C20_AutoChaining ==
    /\ [][isActive =>
             /\ isActive'
             /\ (currentPhase = "focus" /\ currentPhase' = "break") =>
                    totalFocusedSeconds' =
                        totalFocusedSeconds + focusDuration * SecondsPerMinute]_vars
    /\ (isActive /\ currentPhase = "focus" /\ credits < MaxCredits)
           ~> (isActive /\ currentPhase = "break")
    /\ (isActive /\ currentPhase = "break") ~> (isActive /\ currentPhase = "focus")

\* A Focus and the Break after it have expired and the next Focus runs.
C20_Witness ==
    /\ isActive
    /\ currentPhase = "focus"
    /\ toast = "break-ended"
    /\ credits = 1
    /\ totalFocusedSeconds = focusDuration * SecondsPerMinute

\* ------------------------------------------------------------ formatTime alone
\* The component rendering an arbitrary countdown below 100 minutes: the state
\* before the render holds the seconds, the render puts formatTime of them on
\* the display.
FormatRange == 0..5999

FormatInit ==
    /\ focusDuration = DEFAULT_FOCUS_DURATION
    /\ breakDuration = DEFAULT_BREAK_DURATION
    /\ alarmVolume = DEFAULT_ALARM_VOLUME
    /\ customFocusDuration = toString(DEFAULT_FOCUS_DURATION)
    /\ customBreakDuration = toString(DEFAULT_BREAK_DURATION)
    /\ customAlarmVolume = toString(DEFAULT_ALARM_VOLUME)
    /\ timeLeft \in FormatRange
    /\ isActive = FALSE
    /\ currentPhase = "focus"
    /\ totalFocusedSeconds = 0
    /\ isSettingsOpen = FALSE
    /\ audioContextStarted = FALSE
    /\ contextState = "suspended"
    /\ pending = <<>>
    /\ credits = 0
    /\ focusTicks = 0
    /\ edits = 0
    /\ display = <<>>
    /\ toast = "none"
    /\ alarm = 0

FormatRender ==
    /\ display = <<>>
    /\ display' = formatTime(timeLeft)
    /\ UNCHANGED <<settingsVars, draftVars, timeLeft, isActive, currentPhase,
                   totalFocusedSeconds, credits, focusTicks, isSettingsOpen,
                   audioVars, pending, toast, alarm>>

FormatNext == FormatRender

FormatSpec == FormatInit /\ [][FormatNext]_vars

\* Two characters for a number below 100.
TwoDigits(n) == <<Digits[(n \div 10) + 1], Digits[(n % 10) + 1]>>

\* C17: for 0 <= s < 6000 the text of s is the two-digit minutes, a colon and
\* the two-digit seconds, and reading it back as minutes * 60 + seconds gives s.
C17_FormatTimeRoundTrip ==
    display # <<>> =>
        /\ display = TwoDigits(timeLeft \div 60) \o <<":">> \o TwoDigits(timeLeft % 60)
        /\ Len(display) = 5
        /\ ParseInt(SubSeq(display, 1, 2)).val * 60
               + ParseInt(SubSeq(display, 4, 5)).val = timeLeft

\* The last value of the range is on the display, as "99:59".
C17_Witness ==
    /\ timeLeft = 5999
    /\ display = <<"9", "9", ":", "5", "9">>

====
